---- MODULE Spec2Model ----
(***************************************************************************)
(* Movie-Mania-Agent: the tool-calling conversation loop (src/agent.py),   *)
(* the capabilities it dispatches to (src/tools.py) and the chat/session   *)
(* endpoints that drive it (src/main.py).                                  *)
(*                                                                         *)
(* The FastAPI handlers are coroutines on one event loop: the code between *)
(* two awaits is one atomic action.  chat_with_agent has a single await    *)
(* (run_agent_async), so it is split in ChatBegin (lines 246-259, up to    *)
(* the submission of graph.invoke to the thread pool) and ChatCommit /     *)
(* ChatFail (the code after the await).  graph.invoke runs in a worker     *)
(* thread: GraphStart reads the input, LlmNode and ToolNode are the two    *)
(* nodes of the graph, OutOfSteps is the graph running out of supersteps.  *)
(*                                                                         *)
(* Python lists are objects: session['state'].copy() is a shallow copy, so *)
(* agent_state['messages'] IS the stored list.  Lists therefore live in a  *)
(* heap and are referred to by identifier.                                 *)
(***************************************************************************)
EXTENDS Integers, Sequences, FiniteSets, TLC

\* ------------------------------------------------------------------ bounds
\* number of chat requests issued in a behaviour
MaxReq == 2
\* number of session ids create_session_id can hand out
MaxSessions == 2
\* supersteps graph.invoke may run before it raises GraphRecursionError
\* (agent.py configures none; the graph library's default applies)
RecursionLimit == 3
\* number of reset / delete / clear requests issued in a behaviour
MaxAdmin == 1
\* supersteps of the one turn that is followed call by call
TurnRecursionLimit == 5

\* ThreadPoolExecutor(max_workers=4)
max_workers == 4

SessionIds == 1..MaxSessions
\* Optional[str] = None
None == 0
\* a session id no call of create_session_id returns
UnknownId == MaxSessions + 1

\* ---------------------------------------------------------------- messages
NoId == <<0, 0, 0>>

Message(type, content, tool_calls, tool_call_id, status) ==
    [type |-> type, content |-> content, tool_calls |-> tool_calls,
     tool_call_id |-> tool_call_id, status |-> status]

\* the fixed SystemMessage of agent.py
system_prompt == Message("system", <<"system_prompt", 0, 0>>, <<>>, NoId, "none")

HumanMessage(content) == Message("human", content, <<>>, NoId, "none")

AIMessage(content, tool_calls) == Message("ai", content, tool_calls, NoId, "none")

ToolMessage(content, tool_call_id, status) ==
    Message("tool", content, <<>>, tool_call_id, status)

\* ChatMessage(role=..., content=...).dict()
ChatMessage(role, content) == [role |-> role, content |-> content]

\* the text of chat request r
UserText(r) == <<"user", r, 0>>

\* ------------------------------------------------------------ capabilities
\* what the external movie database does with one request
Outcomes == {"ok", "non2xx", "exception"}

\* The tool functions: requests.get(...).json() followed by the filtering of
\* the response.  No tool calls raise_for_status or catches anything, so a
\* network error or an undecodable body raises, and a non-2xx answer (a JSON
\* error body without the expected keys) is filtered like any other body.
get_movie_details(outcome) ==
    CASE outcome = "ok" -> [raised |-> FALSE, payload |-> "data"]
      [] outcome = "non2xx" -> [raised |-> FALSE, payload |-> "null_fields"]
      [] OTHER -> [raised |-> TRUE, payload |-> "exception"]

search_movies(outcome) ==
    CASE outcome = "ok" -> [raised |-> FALSE, payload |-> "data"]
      [] outcome = "non2xx" -> [raised |-> FALSE, payload |-> "provider_error_body"]
      [] OTHER -> [raised |-> TRUE, payload |-> "exception"]

get_watch_providers(outcome) ==
    CASE outcome = "ok" -> [raised |-> FALSE, payload |-> "data"]
      [] outcome = "non2xx" -> [raised |-> FALSE, payload |-> "no_information_message"]
      [] OTHER -> [raised |-> TRUE, payload |-> "exception"]

RunTool(name, outcome) ==
    CASE name = "get_movie_details" -> get_movie_details(outcome)
      [] name = "search_movies" -> search_movies(outcome)
      [] OTHER -> get_watch_providers(outcome)

\* the tools bound to the model and given to ToolNode (of the seven, the
\* three whose answers to a non-2xx response differ)
ToolNames == {"get_movie_details", "search_movies", "get_watch_providers"}

\* how the arguments of a tool call relate to the tool's signature:
\* as declared; a required one missing; one of a type that cannot be read as
\* the declared type ("abc" for movie_id: int); one of another type that can
\* ("27205" for movie_id: int)
ArgKinds == {"valid", "missing", "uncoercible", "coercible"}

\* a capability request of the model
Call(name, args) == [name |-> name, args |-> args]

\* the capability requests one model reply may carry
ToolCallLists ==
    {<<>>,
     <<Call("search_movies", "valid")>>,
     <<Call("get_movie_details", "valid"), Call("get_watch_providers", "valid")>>}

\* replies of the turn that is followed call by call
TurnToolCallLists ==
    ToolCallLists \cup
    {<<Call("get_watch_providers", "valid")>>,
     <<Call("get_movie_details", "missing")>>,
     <<Call("get_movie_details", "uncoercible")>>,
     <<Call("get_movie_details", "coercible")>>,
     <<Call("get_movie_reviews", "valid")>>}

\* @tool builds the argument schema from the signature; the arguments are
\* validated against it (type coercion included) before the function runs
Accepted(args) == args \in {"valid", "coercible"}

\* the call reaches the tool function
Executed(call) == call.name \in ToolNames /\ Accepted(call.args)

\* --------------------------------------------------------------- the graph
\* ChatState.messages is Annotated with add_messages: a node's output is
\* appended to the channel (every message here carries a fresh identifier)
add_messages(left, right) == left \o right

\* llm.invoke(state['messages']): the system prompt forgotten
LlmInput_without_system(messages) == messages

\* what llm_node passes to llm.invoke
LlmInput(messages) == <<system_prompt>> \o messages

\* llm_node's return value for the model's reply
llm_node(response) == <<response>>

\* the conditional edge never routing to the tools node
should_continue_always_end(messages) == "end"

\* the two exits of the edge exchanged
should_continue_inverted(messages) ==
    IF messages[Len(messages)].tool_calls # <<>> THEN "end" ELSE "continue"

should_continue(messages) ==
    IF messages[Len(messages)].tool_calls = <<>> THEN "end" ELSE "continue"

\* ToolNode running one tool call: the tool's return value, or the exception
\* it raised (ToolNode handles tool errors unless told otherwise, and
\* agent.py does not), becomes a ToolMessage that carries the call's id
ToolResult(call, outcome) ==
    LET res == RunTool(call.name, outcome)
    IN IF call.name \notin ToolNames
       THEN ToolMessage(<<"Error_not_a_valid_tool", call.id[1], call.id[2]>>,
                        call.id, "error")
       ELSE IF ~Accepted(call.args)
       THEN ToolMessage(<<"Error_validation", call.id[1], call.id[2]>>,
                        call.id, "error")
       ELSE IF res.raised
       THEN ToolMessage(<<"Error", call.id[1], call.id[2]>>, call.id, "error")
       ELSE ToolMessage(<<res.payload, call.id[1], call.id[2]>>, call.id, "success")

\* the results collected in completion order, here the reverse of the calls
tool_node_reversed(messages, outcomes) ==
    LET calls == messages[Len(messages)].tool_calls
        n == Len(calls)
    IN [k \in 1..n |-> ToolResult(calls[n + 1 - k], outcomes[n + 1 - k])]

\* only the first tool call of the message executed
tool_node_first_only(messages, outcomes) ==
    LET calls == messages[Len(messages)].tool_calls
    IN [k \in 1..1 |-> ToolResult(calls[k], outcomes[k])]

\* ToolNode: one ToolMessage per tool call of the last message, in the order
\* of the calls
tool_node(messages, outcomes) ==
    LET calls == messages[Len(messages)].tool_calls
    IN [k \in 1..Len(calls) |-> ToolResult(calls[k], outcomes[k])]

\* ------------------------------------------------------------------- state
VARIABLES
    chat_sessions,  \* the keys of the chat_sessions dictionary
    sessionObj,     \* the session dictionaries ever created, by their id
    nSessions,      \* number of ids create_session_id has generated
    heap,           \* the message lists, by identity
    pc,             \* where each chat request is
    rsess,          \* chat_with_agent's local `session` (a dictionary)
    rlist,          \* agent_state['messages'] of a submitted graph.invoke
    gstate,         \* the graph's messages channel during graph.invoke
    steps,          \* supersteps the graph has run
    err,            \* the exception graph.invoke raised
    response,       \* what the caller of the chat request receives
    prompt,         \* the messages of the request's latest llm.invoke
    llmCalls,       \* number of llm.invoke calls of the request
    invoked,        \* the capability executions of the request, in order
    before,         \* the session's history and log when the request began
    admin,          \* number of reset / delete / clear requests so far
    recursion_limit,\* the superstep limit graph.invoke runs under
    tcalls,         \* the tool calls of the tools node in progress, one by one
    stale           \* the requests that began before a reset of their session

vars == <<chat_sessions, sessionObj, nSessions, heap, pc, rsess, rlist, gstate,
          steps, err, response, prompt, llmCalls, invoked, before, admin,
          recursion_limit, tcalls, stale>>

\* the chat requests of the behaviour
Requests == DOMAIN pc

\* the identities a message list can have
ListIds == DOMAIN heap

\* the sessions ever created
Created == 1..nSessions

NoResponse == [status |-> 0, detail |-> "none", content |-> <<"none", 0, 0>>]

\* the state after start-up, for n chat requests to come and graph.invoke
\* running under the superstep limit `limit`
InitWith(n, limit) ==
    /\ chat_sessions = {}
    /\ sessionObj = [s \in SessionIds |-> [messages |-> <<>>, state |-> 0]]
    /\ nSessions = 0
    /\ heap = [l \in 1..(MaxSessions + n + 1) |-> <<>>]
    /\ pc = [r \in 1..n |-> "idle"]
    /\ rsess = [r \in 1..n |-> 0]
    /\ rlist = [r \in 1..n |-> 0]
    /\ gstate = [r \in 1..n |-> <<>>]
    /\ steps = [r \in 1..n |-> 0]
    /\ err = [r \in 1..n |-> "none"]
    /\ response = [r \in 1..n |-> NoResponse]
    /\ prompt = [r \in 1..n |-> <<>>]
    /\ llmCalls = [r \in 1..n |-> 0]
    /\ invoked = [r \in 1..n |-> <<>>]
    /\ before = [r \in 1..n |-> [state |-> <<>>, log |-> <<>>]]
    /\ admin = 0
    /\ recursion_limit = limit
    /\ tcalls = [r \in 1..n |-> <<>>]
    /\ stale = {}

Init == InitWith(MaxReq, RecursionLimit)

\* ---------------------------------------------------------------- the heap
\* the lists some dictionary or some submitted task still refers to
InUse(objs, n, lists) ==
    ({objs[s].state : s \in 1..n} \cup {lists[r] : r \in Requests}) \ {0}

\* a list object made once and handed to every session
NewList_shared(objs, n, lists) == 1

\* a new list object
NewList(objs, n, lists) ==
    CHOOSE l \in ListIds \ InUse(objs, n, lists) :
        \A m \in ListIds \ InUse(objs, n, lists) : l <= m

\* unreferenced lists are garbage
Collect(h, objs, n, lists) ==
    [l \in ListIds |-> IF l \in InUse(objs, n, lists) THEN h[l] ELSE <<>>]

\* chat_sessions[s]['state']['messages']
StoredHistory(s) == heap[sessionObj[s].state]

\* chat_sessions[s]['messages']
DisplayLog(s) == sessionObj[s].messages


\* ------------------------------------------------------------- main.py
\* get_or_create_session: the id it returns and the store it leaves
\* the new session stored under the id the caller supplied
get_or_create_session_adopts_id(session_id) ==
    IF session_id # None /\ session_id \in chat_sessions
    THEN [id |-> session_id, keys |-> chat_sessions, objs |-> sessionObj,
          n |-> nSessions, h |-> heap]
    ELSE LET new == IF session_id # None THEN session_id ELSE nSessions + 1
             l == NewList(sessionObj, nSessions, rlist)
         IN [id |-> new, keys |-> chat_sessions \cup {new},
             objs |-> [sessionObj EXCEPT ![new] = [messages |-> <<>>, state |-> l]],
             n |-> nSessions + 1, h |-> [heap EXCEPT ![l] = <<>>]]

get_or_create_session(session_id) ==
    IF session_id # None /\ session_id \in chat_sessions
    THEN [id |-> session_id, keys |-> chat_sessions, objs |-> sessionObj,
          n |-> nSessions, h |-> heap]
    ELSE LET new == nSessions + 1
             l == NewList(sessionObj, nSessions, rlist)
         IN [id |-> new, keys |-> chat_sessions \cup {new},
             objs |-> [sessionObj EXCEPT ![new] = [messages |-> <<>>, state |-> l]],
             n |-> new, h |-> [heap EXCEPT ![l] = <<>>]]

\* raise HTTPException(status_code=..., detail=...)
HTTPException(status_code, detail) ==
    [status |-> status_code, detail |-> detail, content |-> <<"none", 0, 0>>]

\* return ChatResponse(response=ai_response, ...)
ChatResponse(ai_response) ==
    [status |-> 200, detail |-> "none", content |-> ai_response]

\* the exception swallowed and an empty reply returned
AgentError_as_reply(e) == ChatResponse(<<"none", 0, 0>>)

\* run_agent_async's except clause: whatever graph.invoke raised
AgentError(e) == HTTPException(500, "Agent processing failed")

\* an executor that takes no worker for busy
Running_none == {}

\* the worker threads that are running a graph.invoke
Running == {r \in Requests : pc[r] \in {"llm", "tools"}}

\* chat_with_agent, lines 246-259: up to the await of run_agent_async.
\* Requests are numbered in the order they arrive.
ChatBegin(r, session_id) ==
    /\ pc[r] = "idle"
    /\ \A q \in Requests : q < r => pc[q] # "idle"
    /\ (session_id # None /\ session_id \in chat_sessions) \/ nSessions < MaxSessions
    /\ LET g == get_or_create_session(session_id)
           s == g.id
           l == g.objs[s].state
       IN /\ chat_sessions' = g.keys
          /\ nSessions' = g.n
          /\ sessionObj' = [g.objs EXCEPT ![s].messages =
                                Append(@, ChatMessage("user", UserText(r)))]
          /\ heap' = [g.h EXCEPT ![l] = Append(@, HumanMessage(UserText(r)))]
          /\ rsess' = [rsess EXCEPT ![r] = s]
          /\ rlist' = [rlist EXCEPT ![r] = l]
          /\ before' = [before EXCEPT ![r] =
                            [state |-> g.h[l], log |-> g.objs[s].messages]]
    /\ pc' = [pc EXCEPT ![r] = "queued"]
    /\ UNCHANGED <<gstate, steps, err, response, prompt, llmCalls, invoked, admin,
                   recursion_limit, tcalls, stale>>

\* a worker thread takes the task: graph.invoke reads its input
GraphStart(r) ==
    /\ pc[r] = "queued"
    /\ Cardinality(Running) < max_workers
    /\ gstate' = [gstate EXCEPT ![r] = add_messages(<<>>, heap[rlist[r]])]
    /\ rlist' = [rlist EXCEPT ![r] = 0]
    /\ heap' = Collect(heap, sessionObj, nSessions, rlist')
    /\ steps' = [steps EXCEPT ![r] = 0]
    /\ pc' = [pc EXCEPT ![r] = "llm"]
    /\ UNCHANGED <<chat_sessions, sessionObj, nSessions, rsess, err, response,
                   prompt, llmCalls, invoked, before, admin,
                   recursion_limit, tcalls, stale>>

\* the model's reply to call number n of request r that carries the
\* capability requests `calls`, each under an identifier of its own
ModelReply(r, n, calls) ==
    AIMessage(<<"reply", r, n>>,
              [k \in 1..Len(calls) |->
                  [name |-> calls[k].name, args |-> calls[k].args,
                   id |-> <<r, n, k>>]])

\* llm_node followed by the conditional edge, the model answering
LlmReply(r, calls) ==
    /\ pc[r] = "llm"
    /\ steps[r] < recursion_limit
    /\ prompt' = [prompt EXCEPT ![r] = LlmInput(gstate[r])]
    /\ llmCalls' = [llmCalls EXCEPT ![r] = @ + 1]
    /\ LET response_ == ModelReply(r, llmCalls[r] + 1, calls)
           messages == add_messages(gstate[r], llm_node(response_))
       IN /\ gstate' = [gstate EXCEPT ![r] = messages]
          /\ pc' = [pc EXCEPT ![r] =
                        IF should_continue(messages) = "end"
                        THEN "returned" ELSE "tools"]
    /\ steps' = [steps EXCEPT ![r] = @ + 1]
    /\ UNCHANGED <<chat_sessions, sessionObj, nSessions, heap, rsess, rlist, err,
                   response, invoked, before, admin,
                   recursion_limit, tcalls, stale>>

\* llm_node, llm.invoke raising: the exception leaves graph.invoke
LlmRaise(r) ==
    /\ pc[r] = "llm"
    /\ steps[r] < recursion_limit
    /\ prompt' = [prompt EXCEPT ![r] = LlmInput(gstate[r])]
    /\ llmCalls' = [llmCalls EXCEPT ![r] = @ + 1]
    /\ err' = [err EXCEPT ![r] = "ModelError"]
    /\ pc' = [pc EXCEPT ![r] = "raised"]
    /\ UNCHANGED <<chat_sessions, sessionObj, nSessions, heap, rsess, rlist, gstate,
                   steps, response, invoked, before, admin,
                   recursion_limit, tcalls, stale>>

\* the tools node, then the edge back to llm: every tool call of the last
\* message is executed, the external service answering each in some way, and
\* the node's output is appended when all have finished
ToolNode(r) ==
    /\ pc[r] = "tools"
    /\ steps[r] < recursion_limit
    /\ LET calls == gstate[r][Len(gstate[r])].tool_calls
       IN \E outcomes \in [1..Len(calls) -> Outcomes] :
            /\ invoked' = [invoked EXCEPT ![r] = @ \o
                  [k \in 1..Len(calls) |->
                      [id |-> calls[k].id, name |-> calls[k].name,
                       outcome |-> outcomes[k]]]]
            /\ gstate' = [gstate EXCEPT ![r] =
                              add_messages(@, tool_node(@, outcomes))]
    /\ steps' = [steps EXCEPT ![r] = @ + 1]
    /\ pc' = [pc EXCEPT ![r] = "llm"]
    /\ UNCHANGED <<chat_sessions, sessionObj, nSessions, heap, rsess, rlist, err,
                   response, prompt, llmCalls, before, admin,
                   recursion_limit, tcalls, stale>>

\* a node is due and the graph has no superstep left
OutOfSteps(r) ==
    /\ pc[r] \in {"llm", "tools"}
    /\ steps[r] = recursion_limit
    /\ err' = [err EXCEPT ![r] = "GraphRecursionError"]
    /\ pc' = [pc EXCEPT ![r] = "raised"]
    /\ UNCHANGED <<chat_sessions, sessionObj, nSessions, heap, rsess, rlist, gstate,
                   steps, response, prompt, llmCalls, invoked, before, admin,
                   recursion_limit, tcalls, stale>>

\* the handler storing its session dictionary under the session id again
ChatCommit_reinserts(r) ==
    /\ pc[r] = "returned"
    /\ LET s == rsess[r]
           result == gstate[r]
           ai_response == result[Len(result)].content
           l == NewList([sessionObj EXCEPT ![s].state = 0], nSessions, rlist)
           objs == [sessionObj EXCEPT ![s] =
                        [messages |-> Append(@.messages,
                                             ChatMessage("assistant", ai_response)),
                         state |-> l]]
       IN /\ sessionObj' = objs
          /\ heap' = Collect([heap EXCEPT ![l] = result], objs, nSessions, rlist)
          /\ response' = [response EXCEPT ![r] = ChatResponse(ai_response)]
          /\ chat_sessions' = chat_sessions \cup {s}
    /\ pc' = [pc EXCEPT ![r] = "done"]
    /\ UNCHANGED <<nSessions, rsess, rlist, gstate, steps, err,
                   prompt, llmCalls, invoked, before, admin,
                   recursion_limit, tcalls, stale>>

\* chat_with_agent, lines 259-281: graph.invoke returned
ChatCommit(r) ==
    /\ pc[r] = "returned"
    /\ LET s == rsess[r]
           result == gstate[r]
           ai_response == result[Len(result)].content
           l == NewList([sessionObj EXCEPT ![s].state = 0], nSessions, rlist)
           objs == [sessionObj EXCEPT ![s] =
                        [messages |-> Append(@.messages,
                                             ChatMessage("assistant", ai_response)),
                         state |-> l]]
       IN /\ sessionObj' = objs
          /\ heap' = Collect([heap EXCEPT ![l] = result], objs, nSessions, rlist)
          /\ response' = [response EXCEPT ![r] = ChatResponse(ai_response)]
    /\ pc' = [pc EXCEPT ![r] = "done"]
    /\ UNCHANGED <<chat_sessions, nSessions, rsess, rlist, gstate, steps, err,
                   prompt, llmCalls, invoked, before, admin,
                   recursion_limit, tcalls, stale>>

\* run_agent_async, lines 162-164, and chat_with_agent, lines 283-284
ChatFail(r) ==
    /\ pc[r] = "raised"
    /\ response' = [response EXCEPT ![r] = AgentError(err[r])]
    /\ pc' = [pc EXCEPT ![r] = "failed"]
    /\ UNCHANGED <<chat_sessions, sessionObj, nSessions, heap, rsess, rlist, gstate,
                   steps, err, prompt, llmCalls, invoked, before, admin,
                   recursion_limit, tcalls, stale>>

\* reset_session on an existing session
ResetSession(session_id) ==
    /\ admin < MaxAdmin
    /\ session_id \in chat_sessions
    /\ LET l == NewList([sessionObj EXCEPT ![session_id].state = 0], nSessions, rlist)
           objs == [sessionObj EXCEPT ![session_id] =
                        [messages |-> <<>>, state |-> l]]
       IN /\ sessionObj' = objs
          /\ heap' = Collect([heap EXCEPT ![l] = <<>>], objs, nSessions, rlist)
    /\ admin' = admin + 1
    /\ stale' = stale \cup {r \in Requests : pc[r] # "idle" /\ rsess[r] = session_id}
    /\ UNCHANGED <<chat_sessions, nSessions, pc, rsess, rlist, gstate, steps, err,
                   response, prompt, llmCalls, invoked, before,
                   recursion_limit, tcalls>>

\* delete_session on an existing session
DeleteSession(session_id) ==
    /\ admin < MaxAdmin
    /\ session_id \in chat_sessions
    /\ chat_sessions' = chat_sessions \ {session_id}
    /\ admin' = admin + 1
    /\ UNCHANGED <<sessionObj, nSessions, heap, pc, rsess, rlist, gstate, steps, err,
                   response, prompt, llmCalls, invoked, before,
                   recursion_limit, tcalls, stale>>

\* clear_all_sessions
ClearAllSessions ==
    /\ admin < MaxAdmin
    /\ chat_sessions # {}
    /\ chat_sessions' = {}
    /\ admin' = admin + 1
    /\ UNCHANGED <<sessionObj, nSessions, heap, pc, rsess, rlist, gstate, steps, err,
                   response, prompt, llmCalls, invoked, before,
                   recursion_limit, tcalls, stale>>

Next ==
    \/ \E r \in Requests, session_id \in Created \cup {None, UnknownId} :
            ChatBegin(r, session_id)
    \/ \E r \in Requests : GraphStart(r)
    \/ \E r \in Requests, calls \in ToolCallLists : LlmReply(r, calls)
    \/ \E r \in Requests : LlmRaise(r)
    \/ \E r \in Requests : ToolNode(r)
    \/ \E r \in Requests : OutOfSteps(r)
    \/ \E r \in Requests : ChatCommit(r)
    \/ \E r \in Requests : ChatFail(r)
    \/ \E session_id \in SessionIds : ResetSession(session_id)
    \/ \E session_id \in SessionIds : DeleteSession(session_id)
    \/ ClearAllSessions

Spec == Init /\ [][Next]_vars


\* ------------------------------------------------ one turn, call by call
\* ToolNode hands the tool calls of the last message to a thread pool
\* (executor.map over the calls), one task per call, and collects the results
\* in the order of the calls. The steps below follow one turn through the
\* tools node task by task; Spec takes the node as the single step ToolNode.

\* a task of the tools node: not yet running
Submitted == [st |-> "submitted", msg |-> ToolMessage(<<"none", 0, 0>>, NoId, "none")]

\* the tool function run a second time
RunWithRetry(call) ==
    <<[id |-> call.id, name |-> call.name, outcome |-> "pending"],
      [id |-> call.id, name |-> call.name, outcome |-> "pending"]>>

\* the record of one run of a tool function
RunOnce(call) == <<[id |-> call.id, name |-> call.name, outcome |-> "pending"]>>

\* the tool calls the tools node of request r works on
PendingCalls(r) == gstate[r][Len(gstate[r])].tool_calls

\* the tools node starts: one task per tool call of the last message
ToolSubmit(r) ==
    /\ pc[r] = "tools"
    /\ steps[r] < recursion_limit
    /\ tcalls[r] = <<>>
    /\ tcalls' = [tcalls EXCEPT ![r] = [k \in 1..Len(PendingCalls(r)) |-> Submitted]]
    /\ UNCHANGED <<chat_sessions, sessionObj, nSessions, heap, pc, rsess, rlist,
                   gstate, steps, err, response, prompt, llmCalls, invoked,
                   before, admin, recursion_limit, stale>>

\* task k runs: an unknown tool name or arguments the schema refuses are
\* answered with an error message at once; otherwise the tool function is
\* called and sends its request to the movie service
ToolRun(r, k) ==
    /\ pc[r] = "tools"
    /\ k \in 1..Len(tcalls[r])
    /\ tcalls[r][k].st = "submitted"
    /\ LET call == PendingCalls(r)[k]
       IN IF Executed(call)
          THEN /\ tcalls' = [tcalls EXCEPT ![r][k].st = "running"]
               /\ invoked' = [invoked EXCEPT ![r] = @ \o RunOnce(call)]
          ELSE /\ tcalls' = [tcalls EXCEPT ![r][k] =
                                [st |-> "finished", msg |-> ToolResult(call, "ok")]]
               /\ UNCHANGED invoked
    /\ UNCHANGED <<chat_sessions, sessionObj, nSessions, heap, pc, rsess, rlist,
                   gstate, steps, err, response, prompt, llmCalls,
                   before, admin, recursion_limit, stale>>

\* the movie service answers the request of task k, or the request raises
ToolFinish(r, k, outcome) ==
    /\ pc[r] = "tools"
    /\ k \in 1..Len(tcalls[r])
    /\ tcalls[r][k].st = "running"
    /\ LET call == PendingCalls(r)[k]
       IN /\ tcalls' = [tcalls EXCEPT ![r][k] =
                            [st |-> "finished", msg |-> ToolResult(call, outcome)]]
          /\ invoked' = [invoked EXCEPT ![r] =
                            [i \in 1..Len(@) |->
                                IF @[i].id = call.id /\ @[i].outcome = "pending"
                                THEN [@[i] EXCEPT !.outcome = outcome]
                                ELSE @[i]]]
    /\ UNCHANGED <<chat_sessions, sessionObj, nSessions, heap, pc, rsess, rlist,
                   gstate, steps, err, response, prompt, llmCalls,
                   before, admin, recursion_limit, stale>>

\* the movie service accepts the connection of task k and never answers:
\* requests.get is called without a timeout, so the read never returns
ToolHang(r, k) ==
    /\ pc[r] = "tools"
    /\ k \in 1..Len(tcalls[r])
    /\ tcalls[r][k].st = "running"
    /\ tcalls' = [tcalls EXCEPT ![r][k].st = "hung"]
    /\ UNCHANGED <<chat_sessions, sessionObj, nSessions, heap, pc, rsess, rlist,
                   gstate, steps, err, response, prompt, llmCalls, invoked,
                   before, admin, recursion_limit, stale>>

\* every task has finished: the node's output, one message per call in the
\* order of the calls, is appended, and the edge leads back to llm
ToolJoin(r) ==
    /\ pc[r] = "tools"
    /\ tcalls[r] # <<>>
    /\ \A k \in 1..Len(tcalls[r]) : tcalls[r][k].st = "finished"
    /\ gstate' = [gstate EXCEPT ![r] =
                      add_messages(@, [k \in 1..Len(tcalls[r]) |-> tcalls[r][k].msg])]
    /\ tcalls' = [tcalls EXCEPT ![r] = <<>>]
    /\ steps' = [steps EXCEPT ![r] = @ + 1]
    /\ pc' = [pc EXCEPT ![r] = "llm"]
    /\ UNCHANGED <<chat_sessions, sessionObj, nSessions, heap, rsess, rlist, err,
                   response, prompt, llmCalls, invoked, before, admin,
                   recursion_limit, stale>>

\* one chat request on a new session
TurnInit == InitWith(1, TurnRecursionLimit)

TurnNext ==
    \/ \E r \in Requests, session_id \in Created \cup {None, UnknownId} :
            ChatBegin(r, session_id)
    \/ \E r \in Requests : GraphStart(r)
    \/ \E r \in Requests, calls \in TurnToolCallLists : LlmReply(r, calls)
    \/ \E r \in Requests : LlmRaise(r)
    \/ \E r \in Requests : ToolSubmit(r)
    \/ \E r \in Requests : \E k \in 1..Len(tcalls[r]) : ToolRun(r, k)
    \/ \E r \in Requests : \E k \in 1..Len(tcalls[r]), outcome \in Outcomes :
            ToolFinish(r, k, outcome)
    \/ \E r \in Requests : \E k \in 1..Len(tcalls[r]) : ToolHang(r, k)
    \/ \E r \in Requests : ToolJoin(r)
    \/ \E r \in Requests : OutOfSteps(r)
    \/ \E r \in Requests : ChatCommit(r)
    \/ \E r \in Requests : ChatFail(r)

TurnSpec == TurnInit /\ [][TurnNext]_vars

\* the event loop and the worker threads keep running; nothing is assumed
\* of the movie service
TurnFairSpec == TurnSpec /\ WF_vars(TurnNext)


\* ------------------------------------------- more requests than workers
\* one chat request more than the executor has workers: the first requests
\* open a session each, the later ones continue one of these sessions, and
\* the model answers every request at once
PoolInit == InitWith(max_workers + 1, RecursionLimit)

PoolNext ==
    \/ \E r \in Requests :
        \E session_id \in IF nSessions < MaxSessions THEN {None} ELSE Created :
            ChatBegin(r, session_id)
    \/ \E r \in Requests : GraphStart(r)
    \/ \E r \in Requests : LlmReply(r, <<>>)
    \/ \E r \in Requests : ChatCommit(r)

PoolSpec == PoolInit /\ [][PoolNext]_vars


\* ------------------------------------------------------------------ helpers
Last(h) == h[Len(h)]

IsPrefix(a, b) == Len(a) <= Len(b) /\ SubSeq(b, 1, Len(a)) = a

\* block occurs in h as consecutive messages
Contiguous(block, h) ==
    \E i \in 0..Len(h) :
        i + Len(block) <= Len(h) /\ SubSeq(h, i + 1, i + Len(block)) = block

\* the messages the turn of request r produced
Produced(r) == SelectSeq(gstate[r], LAMBDA m : m.type # "human" /\ m.content[2] = r)

\* the history block of the turn of request r
TurnBlock(r) == <<HumanMessage(UserText(r))>> \o Produced(r)

\* the tool messages that directly follow position i of h
ResultsAfter(h, i) ==
    {j \in (i + 1)..Len(h) : \A m \in (i + 1)..j : h[m].type = "tool"}

\* the N requests of the assistant message at i are answered by the N
\* messages that follow it, one each, in the order of the requests
AnsweredInOrder(h, i) ==
    LET calls == h[i].tool_calls
    IN /\ i + Len(calls) <= Len(h)
       /\ \A k \in 1..Len(calls) :
            /\ h[i + k].type = "tool"
            /\ h[i + k].tool_call_id = calls[k].id
       /\ \A k, m \in 1..Len(calls) : k # m => calls[k].id # calls[m].id
       /\ ResultsAfter(h, i) = (i + 1)..(i + Len(calls))

\* position of the last assistant message of h (0: none)
LastAssistant(h) ==
    IF \E i \in 1..Len(h) : h[i].type = "ai"
    THEN CHOOSE i \in 1..Len(h) :
            h[i].type = "ai" /\ \A j \in (i + 1)..Len(h) : h[j].type # "ai"
    ELSE 0

\* m reports a failure to the model
IsErrorPayload(m) ==
    m.status = "error" \/ m.content[1] \in {"Error", "provider_error_body"}

\* ------------------------------------------------------------------- claims

\* C1: a chat request whose LLM call raised leaves the session's stored agent
\* history and display log as they were before the request began.
C1_ModelFailureLeavesHistory ==
    \A r \in Requests :
        (/\ pc[r] = "failed"
         /\ err[r] = "ModelError"
         /\ admin = 0
         /\ \A q \in Requests \ {r} : pc[q] = "idle")
        => /\ StoredHistory(rsess[r]) = before[r].state
           /\ DisplayLog(rsess[r]) = before[r].log

\* C2: after two chat requests on one session have both completed, the stored
\* history holds the block of each turn (its user message, then what the turn
\* produced) contiguously, and the display log holds each turn's user text
\* directly followed by its reply: nothing is lost, nothing interleaved.
C2_TurnsNotInterleaved ==
    \A a, b \in Requests :
        (/\ a # b
         /\ pc[a] = "done" /\ pc[b] = "done"
         /\ rsess[a] = rsess[b]
         /\ admin = 0)
        => /\ Contiguous(TurnBlock(a), StoredHistory(rsess[a]))
           /\ Contiguous(TurnBlock(b), StoredHistory(rsess[a]))
           /\ \A r \in {a, b} :
                Contiguous(<<ChatMessage("user", UserText(r)),
                             ChatMessage("assistant", response[r].content)>>,
                           DisplayLog(rsess[a]))

\* C3: a turn in which the model keeps requesting capabilities ends within the
\* round-trip bound, with an outcome that differs from the outcome of a Model
\* Client failure.
C3_LoopBoundExceededDistinct ==
    \A r \in Requests :
        /\ steps[r] <= RecursionLimit
        /\ (pc[r] = "failed" /\ err[r] = "GraphRecursionError")
            => response[r] # AgentError("ModelError")

\* C4: when the next Model Client call is due, the N requests of the latest
\* Assistant message are answered by exactly N CapabilityResult messages, the
\* last N of the history, each keyed to its request's identifier, the
\* identifiers distinct, in the order of the requests.
C4_ResultsBeforeNextModelCall ==
    \A r \in Requests :
        (pc[r] = "llm" /\ llmCalls[r] > 0)
        => LET h == gstate[r]
               i == LastAssistant(h)
           IN /\ i > 0
              /\ Len(h[i].tool_calls) >= 1
              /\ AnsweredInOrder(h, i)
              /\ Len(h) = i + Len(h[i].tool_calls)

C4_Witness ==
    \E r \in Requests :
        /\ pc[r] = "llm"
        /\ llmCalls[r] > 0
        /\ Len(gstate[r][LastAssistant(gstate[r])].tool_calls) = 2

\* C5: the history graph.invoke returns ends with an Assistant message that
\* carries no pending capability request.
C5_TerminalIsPlainAssistant ==
    \A r \in Requests :
        pc[r] \in {"returned", "done"}
        => /\ Last(gstate[r]).type = "ai"
           /\ Last(gstate[r]).tool_calls = <<>>

C5_Witness ==
    \E r \in Requests :
        /\ pc[r] = "returned"
        /\ llmCalls[r] >= 2
        /\ Len(before[r].state) > 0

\* C6: every capability execution that failed is in the history as a
\* CapabilityResult with an error payload for the same invocation identifier,
\* and the turn was not aborted by it.
C6_FailureIsErrorResult ==
    \A r \in Requests :
        /\ err[r] \in {"none", "ModelError", "GraphRecursionError"}
        /\ \A i \in DOMAIN invoked[r] :
            invoked[r][i].outcome # "ok"
            => \E j \in DOMAIN gstate[r] :
                /\ gstate[r][j].type = "tool"
                /\ gstate[r][j].tool_call_id = invoked[r][i].id
                /\ IsErrorPayload(gstate[r][j])

\* C7: once an LLM call of a turn has raised, the turn makes no further LLM
\* call and no capability invocation, and its caller receives the 'Agent
\* processing failed' error, never a reply.
C7_ModelFailureIsFatal ==
    [][\A r \in Requests :
         err[r] = "ModelError"
         => /\ llmCalls'[r] = llmCalls[r]
            /\ invoked'[r] = invoked[r]
            /\ gstate'[r] = gstate[r]
            /\ pc'[r] \in {"raised", "failed"}
            /\ pc'[r] = "failed"
                => /\ response'[r].status = 500
                   /\ response'[r].detail = "Agent processing failed"]_vars

C7_Witness ==
    \E r \in Requests :
        /\ pc[r] = "failed"
        /\ err[r] = "ModelError"
        /\ llmCalls[r] >= 2
        /\ Len(invoked[r]) >= 1

\* C8: the messages of every LLM call are the System message followed by the
\* history as it is at the call, and no history (the graph's, a session's
\* stored one) ever holds the System message.
C8_SystemPromptPrependedNotStored ==
    /\ \A r \in Requests :
        /\ llmCalls[r] > 0
            => /\ Head(prompt[r]) = system_prompt
               /\ IsPrefix(Tail(prompt[r]), gstate[r])
               /\ IF err[r] = "ModelError"
                  THEN Tail(prompt[r]) = gstate[r]
                  ELSE gstate[r][Len(prompt[r])].content = <<"reply", r, llmCalls[r]>>
        /\ \A i \in DOMAIN gstate[r] : gstate[r][i].type # "system"
    /\ \A s \in Created :
        \A i \in DOMAIN StoredHistory(s) : StoredHistory(s)[i].type # "system"

C8_Witness ==
    \E r \in Requests :
        /\ llmCalls[r] >= 2
        /\ \E i \in DOMAIN prompt[r] : prompt[r][i].type = "tool"
        /\ Len(before[r].state) > 0

\* C9: in every stored agent history every CapabilityResult answers exactly
\* one request of the nearest preceding Assistant message, with only
\* CapabilityResults in between, no request is answered twice, and every
\* request of an Assistant message that is followed by a message is answered.
C9_StoredResultsPaired ==
    \A s \in Created :
        LET h == StoredHistory(s)
        IN \A i \in DOMAIN h :
            /\ h[i].type = "tool"
                => \E a \in 1..(i - 1) :
                    /\ h[a].type = "ai"
                    /\ i \in ResultsAfter(h, a)
                    /\ Cardinality({k \in DOMAIN h[a].tool_calls :
                            h[a].tool_calls[k].id = h[i].tool_call_id}) = 1
                    /\ \A j \in ResultsAfter(h, a) :
                            j # i => h[j].tool_call_id # h[i].tool_call_id
            /\ (h[i].type = "ai" /\ i < Len(h))
                => \A k \in DOMAIN h[i].tool_calls :
                    \E j \in ResultsAfter(h, i) :
                        h[j].tool_call_id = h[i].tool_calls[k].id

C9_Witness ==
    \E s \in Created :
        /\ \E i \in DOMAIN StoredHistory(s) :
            /\ StoredHistory(s)[i].type = "ai"
            /\ Len(StoredHistory(s)[i].tool_calls) = 2
        /\ \E r \in Requests : pc[r] = "failed" /\ rsess[r] = s
        /\ Last(StoredHistory(s)).type = "human"

\* C10: as long as no delete or reset happens, each step leaves every
\* session's stored agent history a prefix of what it becomes.
C10_StoredHistoryAppendOnly ==
    [][\A s \in Created :
         admin' = admin
         => IsPrefix(heap[sessionObj[s].state], heap'[sessionObj'[s].state])]_vars

\* the requests that have begun a turn on session s
TurnsOn(s) == {q \in Requests : pc[q] # "idle" /\ rsess[q] = s}

\* C11: a step of a chat turn on session A (ChatBegin to ChatCommit or
\* ChatFail, under every interleaving) leaves the stored agent history and
\* the display log of every other stored session as they were, and every
\* message the model is given in a turn on A stems from a turn on A.
C11_TurnTouchesOwnSessionOnly ==
    /\ [][\A r \in Requests :
            pc'[r] # pc[r] =>
                \A s \in (chat_sessions \cap chat_sessions') \ {rsess'[r]} :
                    /\ sessionObj'[s].messages = sessionObj[s].messages
                    /\ heap'[sessionObj'[s].state] = heap[sessionObj[s].state]]_vars
    /\ [](\A r \in Requests :
            \A i \in 2..Len(prompt[r]) :
                prompt[r][i].content[2] \in TurnsOn(rsess[r]))

\* two sessions, each with a finished turn of its own and a history
C11_Witness ==
    \E r, q \in Requests :
        /\ rsess[r] # rsess[q]
        /\ pc[r] = "done" /\ pc[q] \in {"done", "failed"}
        /\ {rsess[r], rsess[q]} \subseteq chat_sessions
        /\ StoredHistory(rsess[r]) # <<>> /\ StoredHistory(rsess[q]) # <<>>
        /\ Len(prompt[q]) >= 2

\* the model replies of the turn of request r that carry capability requests
RepliesWithRequests(r) ==
    SelectSeq(Produced(r), LAMBDA m : m.type = "ai" /\ m.tool_calls # <<>>)

\* the supersteps of the turn of request r in which the tools node ran
ToolRounds(r) == steps[r] - llmCalls[r]

\* the capability names the model requested in the turn of r, reply by reply
RequestedNames(r) ==
    LET ai == SelectSeq(Produced(r), LAMBDA m : m.type = "ai")
    IN [i \in 1..Len(ai) |->
          [k \in 1..Len(ai[i].tool_calls) |-> ai[i].tool_calls[k].name]]

\* C12: in a turn that ended with a terminal reply, the tools node ran as many
\* times as there are model replies with pending requests and the model was
\* called once more than that; a model that answers at once is called once
\* and no capability runs; search_movies, then get_watch_providers, then the
\* answer make two rounds and three model calls.
C12_RoundsMatchReplies ==
    \A r \in Requests :
        pc[r] \in {"returned", "done"} =>
            /\ ToolRounds(r) = Len(RepliesWithRequests(r))
            /\ llmCalls[r] = Len(RepliesWithRequests(r)) + 1
            /\ Len(RepliesWithRequests(r)) = 0 =>
                    invoked[r] = <<>> /\ llmCalls[r] = 1
            /\ RequestedNames(r) = <<<<"search_movies">>, <<"get_watch_providers">>, <<>>>> =>
                    /\ ToolRounds(r) = 2 /\ llmCalls[r] = 3
                    /\ Len(invoked[r]) = 2

\* the turn of search_movies, get_watch_providers and the answer has ended
C12_Witness ==
    \E r \in Requests :
        /\ pc[r] = "done"
        /\ RequestedNames(r) = <<<<"search_movies">>, <<"get_watch_providers">>, <<>>>>
        /\ \A i \in 1..Len(invoked[r]) : invoked[r][i].outcome = "ok"

\* a is the end of b
IsSuffix(a, b) == Len(a) <= Len(b) /\ SubSeq(b, Len(b) - Len(a) + 1, Len(b)) = a

\* C13: when a chat request returns its ChatResponse, the response field is
\* the content of the last message of the history that this request stores
\* for its session, and that history ends with the request's own user
\* message followed by the messages its turn produced, so the response is
\* the reply to that user message.
C13_ResponseIsOwnReply ==
    [][\A r \in Requests :
            (pc[r] = "returned" /\ pc'[r] = "done") =>
                LET h == heap'[sessionObj'[rsess[r]].state]
                IN /\ h # <<>>
                   /\ response'[r].content = Last(h).content
                   /\ IsSuffix(TurnBlock(r), h)]_vars

\* request r occupies a worker of the executor
HoldsSlot(r) == r \in Requests /\ pc[r] \in {"llm", "tools"}

\* request r has been handed to the executor and has no worker yet
AwaitsSlot(r) == r \in Requests /\ pc[r] = "queued"

\* C14: the model call and the network read of every capability are bounded
\* by a timeout, so every turn that occupies a worker slot eventually gives it
\* back, and every chat request waiting for a slot eventually gets one,
\* whatever the external services do.
C14_SlotEventuallyReleased ==
    \A r \in 1..MaxReq :
        /\ HoldsSlot(r) ~> ~HoldsSlot(r)
        /\ AwaitsSlot(r) ~> ~AwaitsSlot(r)

\* the capability requests the model made in the turn of request r
RequestsOf(r) ==
    UNION {{gstate[r][i].tool_calls[k] : k \in 1..Len(gstate[r][i].tool_calls)} :
              i \in {j \in 1..Len(gstate[r]) : gstate[r][j].content[2] = r}}

\* the runs of the tool function for the request with identifier id
RunsOf(r, id) == {i \in 1..Len(invoked[r]) : invoked[r][i].id = id}

\* the results in the graph state of r for the request with identifier id
ResultsOf(r, id) ==
    {i \in 1..Len(gstate[r]) :
        gstate[r][i].type = "tool" /\ gstate[r][i].tool_call_id = id}

\* C15: a capability request that names no registered capability, lacks a
\* required argument or carries an argument of another type than declared is
\* never executed: the capability function does not run for its identifier,
\* and the result reported under that identifier is an error.
C15_InvalidRequestRejected ==
    \A r \in Requests :
        \A call \in RequestsOf(r) :
            (call.name \notin ToolNames \/ call.args # "valid") =>
                /\ RunsOf(r, call.id) = {}
                /\ \A i \in ResultsOf(r, call.id) : IsErrorPayload(gstate[r][i])

\* the tasks of the tools node of r whose request to the movie service is out
Outstanding(r) == {k \in 1..Len(tcalls[r]) : tcalls[r][k].st \in {"running", "hung"}}

\* C16: within a turn at most one capability execution is outstanding at any
\* moment, the requests of an Assistant message are executed one after
\* another in the order requested (a request starts only when those before
\* it have finished), the model is not called while the tools node is at
\* work, and no capability is at work once the turn has its final reply.
C16_NoConcurrencyWithinTurn ==
    \A r \in Requests :
        /\ Cardinality(Outstanding(r)) <= 1
        /\ \A k \in 1..Len(tcalls[r]) :
             tcalls[r][k].st # "submitted" =>
                \A j \in 1..(k - 1) : tcalls[r][j].st = "finished"
        /\ pc[r] # "tools" => tcalls[r] = <<>>
        /\ pc[r] \in {"returned", "done"} =>
                \A i \in 1..Len(invoked[r]) : invoked[r][i].outcome # "pending"

\* C17: no capability request is run twice: the tool function runs at most
\* once per invocation identifier, a request whose result has been reported
\* was run exactly once when it passed validation (never when it was
\* rejected) whether the run succeeded or failed, it has exactly one result,
\* and every run of a tool function belongs to a request of the model.
C17_NoAutomaticRetry ==
    \A r \in Requests :
        /\ \A call \in RequestsOf(r) :
             /\ Cardinality(RunsOf(r, call.id)) <= 1
             /\ ResultsOf(r, call.id) # {} =>
                    /\ Cardinality(ResultsOf(r, call.id)) = 1
                    /\ Cardinality(RunsOf(r, call.id)) =
                            IF Executed(call) THEN 1 ELSE 0
        /\ \A i \in 1..Len(invoked[r]) :
             \E call \in RequestsOf(r) :
                call.id = invoked[r][i].id /\ call.name = invoked[r][i].name

\* a capability failed, the model requested it again in a later reply, it ran
\* a second time, and the turn has ended
C17_Witness ==
    \E r \in Requests :
        /\ pc[r] = "done"
        /\ \E i, j \in 1..Len(invoked[r]) :
             /\ i < j
             /\ invoked[r][i].name = invoked[r][j].name
             /\ invoked[r][i].outcome = "exception"
             /\ invoked[r][i].id[2] < invoked[r][j].id[2]

\* the requests whose graph.invoke is executing
Executing == {r \in Requests : HoldsSlot(r)}

\* C18: at every moment at most max_workers (4) runs of graph.invoke execute,
\* over all sessions; a chat request handed to the executor is never dropped
\* (it waits until its run starts) and its run starts only when fewer than
\* max_workers runs are executing.
C18_AtMostFourRuns ==
    /\ [](Cardinality(Executing) <= max_workers)
    /\ [][\A r \in Requests :
            pc[r] = "queued" =>
                /\ pc'[r] \in {"queued", "llm"}
                /\ pc'[r] = "llm" => Cardinality(Executing) < max_workers]_vars

\* four runs execute and a fifth request waits for a worker
C18_Witness ==
    /\ Cardinality(Executing) = max_workers
    /\ \E r \in Requests : AwaitsSlot(r)

\* C19: get_or_create_session called with the id of a stored session returns
\* that id and leaves the session's display log and agent history as they
\* are; called with no id or with an id that is not stored (never issued, or
\* of a deleted session) it adds exactly one session, under an id that was
\* never issued before and is not the id supplied, with an empty display log
\* and an empty agent history; every other stored session stays as it is.
C19_GetOrCreateSession ==
    \A session_id \in Created \cup {None, UnknownId} :
        (session_id \in chat_sessions \/ nSessions < MaxSessions) =>
            LET g == get_or_create_session(session_id)
            IN /\ IF session_id \in chat_sessions
                  THEN /\ g.id = session_id
                       /\ g.keys = chat_sessions
                  ELSE /\ g.id # session_id
                       /\ g.id \notin Created
                       /\ g.keys = chat_sessions \cup {g.id}
                       /\ g.objs[g.id].messages = <<>>
                       /\ g.h[g.objs[g.id].state] = <<>>
               /\ \A s \in chat_sessions :
                    /\ g.objs[s].messages = DisplayLog(s)
                    /\ g.h[g.objs[s].state] = StoredHistory(s)

\* a session that get_or_create_session created for a request has been
\* deleted and a further session can be created: callers may still supply
\* the id of the deleted session
C19_Witness ==
    /\ nSessions < MaxSessions
    /\ \E r \in Requests : pc[r] # "idle" /\ rsess[r] \in Created \ chat_sessions

\* the requests whose messages occur in the history or the log of session s
Authors(s) ==
    {StoredHistory(s)[i].content[2] : i \in 1..Len(StoredHistory(s))}
        \cup {DisplayLog(s)[i].content[2] : i \in 1..Len(DisplayLog(s))}

\* C20: once reset_session(s) has returned, neither the display log nor the
\* agent history of s ever holds a message of a chat request that began
\* before the reset; a turn in flight at the reset does not bring the earlier
\* history back when it completes.
C20_ResetNotUndone ==
    \A r \in stale :
        rsess[r] \in chat_sessions => r \notin Authors(rsess[r])

\* C21: a session id removed from chat_sessions by delete_session or
\* clear_all_sessions never becomes a key of the store again: every id that
\* enters the store was never issued before, so a turn in flight at the
\* deletion completes without storing its session again, and a chat request
\* that does not continue a stored session (it names a deleted one, say)
\* begins on a session under a new id with an empty log and an empty history.
C21_DeletedNeverResurrected ==
    [][/\ \A s \in Created : s \notin chat_sessions => s \notin chat_sessions'
       /\ \A r \in Requests :
            (pc[r] = "idle" /\ pc'[r] = "queued" /\ rsess'[r] \notin chat_sessions) =>
                /\ rsess'[r] \notin Created
                /\ before'[r] = [state |-> <<>>, log |-> <<>>]]_vars

\* the session of a turn was deleted while the turn was in flight, the turn
\* is about to complete, and a later request has been given a new session
C21_Witness ==
    \E r, q \in Requests :
        /\ pc[r] = "returned"
        /\ rsess[r] \in Created \ chat_sessions
        /\ pc[q] # "idle"
        /\ rsess[q] \in chat_sessions
        /\ rsess[q] > rsess[r]

\* the contents of the messages of h that satisfy Test, in order
ContentsWhere(h, Test(_)) ==
    LET sel == SelectSeq(h, Test)
    IN [i \in 1..Len(sel) |-> sel[i].content]

\* no turn is in flight for session s
Quiet(s) == \A r \in Requests : rsess[r] = s => pc[r] \in {"idle", "done", "failed"}

\* C22: whenever no turn is in flight for a stored session, the user texts of
\* its display log are the contents of the user messages of its agent
\* history, in order, and the assistant texts of the display log are the
\* contents of the terminal Assistant messages of the agent history, in order.
C22_LogAgreesWithHistory ==
    \A s \in chat_sessions :
        Quiet(s) =>
            /\ ContentsWhere(DisplayLog(s), LAMBDA m : m.role = "user")
                  = ContentsWhere(StoredHistory(s), LAMBDA m : m.type = "human")
            /\ ContentsWhere(DisplayLog(s), LAMBDA m : m.role = "assistant")
                  = ContentsWhere(StoredHistory(s),
                                  LAMBDA m : m.type = "ai" /\ m.tool_calls = <<>>)

====
